---- MODULE Spec2Model ----
(***************************************************************************)
(* Bayesian oil market insights: the Flask API (src/dashboard/backend/      *)
(* app.py) and the Streamlit dashboard (src/dashboard/app.py).              *)
(*                                                                          *)
(* Both programs load the same three artifacts (price series, event         *)
(* catalog, changepoint record) and answer queries over them.  They are     *)
(* separate processes: Spec is the API server, SpecDashboard the dashboard. *)
(*                                                                          *)
(* Values.  A pandas Timestamp is a day number (1 = 2020-01-01); the text   *)
(* of a date is a string of IsoDates.  A float is a reduced fraction        *)
(* [num, den]; NaN is the fraction 0/0.  A standard deviation is kept as    *)
(* Sqrt(variance).  Python's None is the record None.                       *)
(***************************************************************************)
EXTENDS Integers, Sequences, FiniteSets, TLC

\* Bounds of the model.
MaxDay == 3        \* the generated price series and the events lie on days 1..MaxDay
MaxEvents == 2     \* the generated event catalogs hold at most MaxEvents events

Days == 1..MaxDay

(***************************************************************************)
(* Dates                                                                    *)
(***************************************************************************)
IsoDates == << "2020-01-01", "2020-01-02", "2020-01-03", "2020-01-04",
               "2020-01-05", "2020-01-06", "2020-01-07", "2020-01-08" >>

\* Timestamp.strftime('%Y-%m-%d')
strftime(t) == IsoDates[t]

\* pd.to_datetime(text) raises on a text that is no date
Parses(text) == \E t \in DOMAIN IsoDates : IsoDates[t] = text

\* pd.to_datetime(text), for a text that parses
to_datetime(text) == CHOOSE t \in DOMAIN IsoDates : IsoDates[t] = text

(***************************************************************************)
(* Python values                                                            *)
(***************************************************************************)
None == [type |-> "NoneType"]

DataFrame(cols, rows) == [type |-> "DataFrame", columns |-> cols, rows |-> rows]

\* A name bound to a DataFrame object: the frame the object holds, and
\* whether the object is the one its source (a module global, the caller's
\* frame) holds, so that a column assigned through the name shows there too.
\* (mutant) `df = frame`: the same object under a second name
copy_alias(frame) == [frame |-> frame, shared |-> TRUE]
\* DataFrame.copy(): a new object
copy(frame) == [frame |-> frame, shared |-> FALSE]
\* df[mask], df.sort_values(...): a new object
NewObject(frame) == [frame |-> frame, shared |-> FALSE]

Abs(x) == IF x < 0 THEN -x ELSE x

RECURSIVE GCD(_, _)
GCD(a, b) == IF b = 0 THEN a ELSE GCD(b, a % b)

\* the float n/d, d > 0
Float(n, d) == LET g == GCD(Abs(n), d) IN [num |-> n \div g, den |-> d \div g]

NaN == [num |-> 0, den |-> 0]

\* the float that is the square root of the float v
Sqrt(v) == [sqrt |-> v]

Zero == Float(0, 1)

(***************************************************************************)
(* pandas Series aggregates; a Series is a sequence of floats, NaN = missing*)
(***************************************************************************)
dropna(xs) == SelectSeq(xs, LAMBDA x : x # NaN)

RECURSIVE SumNum(_)
SumNum(xs) == IF xs = << >> THEN 0 ELSE Head(xs).num + SumNum(Tail(xs))

RECURSIVE SumSq(_)
SumSq(xs) == IF xs = << >> THEN 0 ELSE Head(xs).num * Head(xs).num + SumSq(Tail(xs))

\* Series.mean(): NaN skipped; NaN when nothing is left.  (The columns hold
\* whole numbers, den = 1.)
Mean(xs) ==
    LET v == dropna(xs)
    IN  IF Len(v) = 0 THEN NaN ELSE Float(SumNum(v), Len(v))

\* Series.std(): sample standard deviation (ddof = 1), NaN skipped; NaN when
\* fewer than two values are left.
Std(xs) ==
    LET v == dropna(xs)
        n == Len(v)
    IN  IF n < 2 THEN NaN
        ELSE Sqrt(Float(n * SumSq(v) - SumNum(v) * SumNum(v), n * (n - 1)))

\* Series.min(), Series.max()
Min(xs) ==
    LET v == dropna(xs)
    IN  IF Len(v) = 0 THEN NaN
        ELSE CHOOSE x \in {v[i] : i \in 1..Len(v)} :
                 \A i \in 1..Len(v) : x.num <= v[i].num
Max(xs) ==
    LET v == dropna(xs)
    IN  IF Len(v) = 0 THEN NaN
        ELSE CHOOSE x \in {v[i] : i \in 1..Len(v)} :
                 \A i \in 1..Len(v) : x.num >= v[i].num

\* the values of v in ascending order
RECURSIVE Sorted(_)
Sorted(v) ==
    IF v = << >> THEN << >>
    ELSE LET i == CHOOSE i \in 1..Len(v) : \A j \in 1..Len(v) : v[i].num <= v[j].num
         IN  << v[i] >> \o Sorted(SubSeq(v, 1, i - 1) \o SubSeq(v, i + 1, Len(v)))

\* Series.median()
Median(xs) ==
    LET v == Sorted(dropna(xs))
        n == Len(v)
    IN  IF n = 0 THEN NaN
        ELSE IF n % 2 = 1 THEN v[(n + 1) \div 2]
        ELSE Float(v[n \div 2].num + v[n \div 2 + 1].num, 2)

\* df[column] as a Series
Series(df, column) == [i \in 1..Len(df.rows) |-> df.rows[i][column]]

\* df[df['Date'] >= t], df[df['Date'] <= t]: boolean-mask selection keeps
\* the selected rows in their order
\* (mutant) the start date itself left out
DateGeExclusive(df, t) == [df EXCEPT !.rows = SelectSeq(df.rows, LAMBDA r : r.Date > t)]
DateGe(df, t) == [df EXCEPT !.rows = SelectSeq(df.rows, LAMBDA r : r.Date >= t)]
DateLe(df, t) == [df EXCEPT !.rows = SelectSeq(df.rows, LAMBDA r : r.Date <= t)]

\* df[df['Event_Type'] == event_type]
\* (mutant) a type no row carries is taken as no filter
TypeEqOrAll(df, event_type) ==
    IF \E i \in 1..Len(df.rows) : df.rows[i].Event_Type = event_type
    THEN [df EXCEPT !.rows = SelectSeq(df.rows, LAMBDA r : r.Event_Type = event_type)]
    ELSE df
TypeEq(df, event_type) ==
    [df EXCEPT !.rows = SelectSeq(df.rows, LAMBDA r : r.Event_Type = event_type)]

\* df['Date'] = df['Date'].dt.strftime('%Y-%m-%d')
DateToText(df) ==
    [df EXCEPT !.rows = [i \in 1..Len(df.rows) |->
                            [df.rows[i] EXCEPT !.Date = strftime(df.rows[i].Date)]]]

\* Series.unique().tolist(): the distinct values in order of first appearance
\* (mutant) the column as it is, repeated values kept
KeepAll(xs) == xs
RECURSIVE Unique(_)
Unique(xs) ==
    IF xs = << >> THEN << >>
    ELSE LET init == Unique(SubSeq(xs, 1, Len(xs) - 1))
             last == xs[Len(xs)]
         IN  IF \E i \in 1..Len(init) : init[i] = last THEN init
             ELSE Append(init, last)

(***************************************************************************)
(* The artifacts under data/                                                *)
(***************************************************************************)
\* Price of the day, and the column's float
PriceTable == << 50, 51, 49, 52, 53, 50, 48, 54 >>

\* the days of S in ascending order
RECURSIVE Ascending(_)
Ascending(S) ==
    IF S = {} THEN << >>
    ELSE LET m == CHOOSE m \in S : \A d \in S : m <= d
         IN  << m >> \o Ascending(S \ {m})

\* brent_with_changepoint.csv with one row per day of S, ascending; the
\* log_return column, when the file has one, is missing in the first row
\* and holds the difference to the previous row's price elsewhere.
PriceFrame(S, with_returns) ==
    LET days == Ascending(S)
        row(i) ==
            LET base == [Date |-> days[i], Price |-> Float(PriceTable[days[i]], 1)]
            IN  IF ~with_returns THEN base
                ELSE base @@ [log_return |->
                         IF i = 1 THEN NaN
                         ELSE Float(PriceTable[days[i]] - PriceTable[days[i - 1]], 1)]
    IN  DataFrame(IF with_returns THEN {"Date", "Price", "log_return"}
                  ELSE {"Date", "Price"},
                  [i \in 1..Len(days) |-> row(i)])

\* the event types of the generated catalogs ("Sanctions" is none of the
\* three the dashboard has colours for)
CatalogTypes == {"OPEC_Decision", "Sanctions"}

RECURSIVE SeqsUpTo(_, _)
SeqsUpTo(S, n) ==
    IF n = 0 THEN {<< >>}
    ELSE LET shorter == SeqsUpTo(S, n - 1)
         IN  shorter \cup {Append(s, x) : s \in {t \in shorter : Len(t) = n - 1}, x \in S}

Descriptions == << "first", "second", "third", "fourth", "fifth", "sixth" >>

\* structured_events.csv: events in any order, several may share a date
\* (Description tells the rows apart; Expected_Impact is only displayed)
EventFrame(evs) ==
    DataFrame({"Date", "Event_Type", "Description"},
              [i \in 1..Len(evs) |->
                  [Date |-> evs[i][1], Event_Type |-> evs[i][2],
                   Description |-> Descriptions[i]]])

EventFrames == {EventFrame(evs) : evs \in SeqsUpTo(Days \X CatalogTypes, MaxEvents)}

\* changepoint_results.json
Results(t) == [type |-> "dict", change_point_date |-> strftime(t)]

\* the fixture: 5 rows 2020-01-01..2020-01-05, prices 50, 51, 49, 52, 53,
\* changepoint 2020-01-03, events one day before, on, and two days after it
FixturePrices == PriceFrame({1, 2, 3, 4, 5}, TRUE)
FixtureEvents ==
    EventFrame(<< <<5, "Economic_Shock">>, <<2, "OPEC_Decision">>, <<3, "Geopolitical">> >>)
FixtureResults == Results(to_datetime("2020-01-03"))

\* a catalog longer than the table of closest events, not in date order:
\* 5, 2, 1, 0, 3 and 1 days from the fixture's changepoint
LongEvents ==
    EventFrame(<< <<8, "OPEC_Decision">>, <<1, "Geopolitical">>, <<4, "OPEC_Decision">>,
                  <<3, "Sanctions">>, <<6, "Geopolitical">>, <<2, "OPEC_Decision">> >>)

\* The loaded form of what the data directory holds: the fixture; the long
\* catalog beside a one-day series; a generated price series beside the
\* fixture's events; a generated catalog beside the full generated series
\* and a changepoint in its middle.
Artifacts ==
    {<< FixturePrices, FixtureEvents, FixtureResults >>,
     << PriceFrame({3}, TRUE), LongEvents, FixtureResults >>}
    \cup {<< PriceFrame(S, w), FixtureEvents, Results(t) >> :
             S \in SUBSET Days \ {{}}, w \in BOOLEAN, t \in Days}
    \cup {<< PriceFrame(Days, TRUE), e, Results(2) >> : e \in EventFrames}

\* A csv file is its rows with the Date column as text; a file that is not
\* there is Missing.
Missing == [type |-> "missing"]

CsvFile(frame) == DateToText(frame)

\* a csv file one of whose dates is no date
BadDates(file) ==
    [file EXCEPT !.rows = [i \in 1..Len(file.rows) |->
                              [file.rows[i] EXCEPT !.Date = "not-a-date"]]]

\* the fixture's directory with some of the three files missing or malformed
BrokenDirs ==
    LET p == CsvFile(FixturePrices)
        e == CsvFile(FixtureEvents)
        r == FixtureResults
    IN  ({p, Missing, BadDates(p)} \X {e, Missing, BadDates(e)} \X {r, Missing})
        \ {<< p, e, r >>}

DataDirs == {<< CsvFile(a[1]), CsvFile(a[2]), a[3] >> : a \in Artifacts} \cup BrokenDirs

\* pd.read_csv / open raise on a missing file
ReadRaises(file) == file = Missing

\* df['Date'] = pd.to_datetime(df['Date'])
DatesRaise(file) == \E i \in 1..Len(file.rows) : ~Parses(file.rows[i].Date)

ParseDates(file) ==
    [file EXCEPT !.rows = [i \in 1..Len(file.rows) |->
                              [file.rows[i] EXCEPT !.Date = to_datetime(file.rows[i].Date)]]]

\* the body of load_all_data / load_data raises
LoadRaises(dir) ==
    \/ ReadRaises(dir[1]) \/ (~ReadRaises(dir[1]) /\ DatesRaise(dir[1]))
    \/ ReadRaises(dir[2]) \/ (~ReadRaises(dir[2]) /\ DatesRaise(dir[2]))
    \/ ReadRaises(dir[3])

\* what the body returns when nothing raises
Loaded(dir) == << ParseDates(dir[1]), ParseDates(dir[2]), dir[3] >>

\* (mutant) what was read before the failure is kept
load_all_data_partial(dir) ==
    IF ReadRaises(dir[1]) \/ DatesRaise(dir[1]) THEN << None, None, None >>
    ELSE IF ReadRaises(dir[2]) \/ DatesRaise(dir[2]) THEN << ParseDates(dir[1]), None, None >>
    ELSE IF ReadRaises(dir[3]) THEN << ParseDates(dir[1]), ParseDates(dir[2]), None >>
    ELSE Loaded(dir)
\* load_all_data() of the API: the except branch returns None, None, None
load_all_data(dir) == IF LoadRaises(dir) THEN << None, None, None >> ELSE Loaded(dir)

(***************************************************************************)
(* State                                                                    *)
(***************************************************************************)
VARIABLES
    data_dir,              \* the three files under data/
    price_data,            \* API: module global, DataFrame or None
    events_data,           \* API: module global, DataFrame or None
    changepoint_results,   \* API: module global, dict or None
    request,               \* API: the request being answered
    response,              \* API: its response
    view                   \* dashboard: what the last run of main() computed

vars == << data_dir, price_data, events_data, changepoint_results,
           request, response, view >>

NoRequest == [op |-> "none"]
NoView == [page |-> "none"]

\* The API process: the module body runs load_all_data() once, at import.
Init ==
    /\ data_dir \in DataDirs
    /\ price_data = load_all_data(data_dir)[1]
    /\ events_data = load_all_data(data_dir)[2]
    /\ changepoint_results = load_all_data(data_dir)[3]
    /\ request = NoRequest
    /\ response = NoRequest
    /\ view = NoView

(***************************************************************************)
(* Requests                                                                 *)
(***************************************************************************)
NoArgs == [k \in {} |-> ""]

\* a query parameter that is absent, or carries one of the texts V
Optional(k, V) == {NoArgs} \cup {k :> v : v \in V}

\* texts sent as a date: empty, malformed, or a date
DateTexts == {"", "not-a-date"} \cup {strftime(t) : t \in Days}

\* texts sent as event_type
TypeTexts == {"", "Unknown"} \cup CatalogTypes

DateArgs ==
    {s @@ e : s \in Optional("start_date", DateTexts),
              e \in Optional("end_date", DateTexts)}

EventArgs == {d @@ t : d \in DateArgs, t \in Optional("event_type", TypeTexts)}

\* `if value:` on request.args.get(k): the parameter is there and not empty
Given(args, k) == k \in DOMAIN args /\ args[k] # ""

\* jsonify({...}) / jsonify({'success': False, 'error': str(e)}), 500
Ok(body) == [status |-> 200, success |-> TRUE] @@ body
Failure(error) == [status |-> 500, success |-> FALSE, error |-> error]

\* the date filters shared by get_prices, get_events and get_statistics;
\* "raises" tells whether pd.to_datetime raises on a given parameter
DateFilterRaises(args) ==
    \/ Given(args, "start_date") /\ ~Parses(args["start_date"])
    \/ Given(args, "end_date") /\ ~Parses(args["end_date"])

\* (mutant) an inverted range is put in order before it is applied
DateFilterOrdered(df, args) ==
    LET given == Given(args, "start_date") /\ Given(args, "end_date")
        a == to_datetime(args["start_date"])
        b == to_datetime(args["end_date"])
    IN  IF given /\ a > b
        THEN [df EXCEPT !.rows = SelectSeq(df.rows, LAMBDA r : b <= r.Date /\ r.Date <= a)]
        ELSE LET df1 == IF Given(args, "start_date") THEN DateGe(df, a) ELSE df
             IN  IF Given(args, "end_date") THEN DateLe(df1, b) ELSE df1
DateFilter(df, args) ==
    LET df1 == IF Given(args, "start_date")
               THEN DateGe(df, to_datetime(args["start_date"])) ELSE df
    IN  IF Given(args, "end_date")
        THEN DateLe(df1, to_datetime(args["end_date"])) ELSE df1

\* GET /api/health
health_check_response ==
    [status |-> 200, body |-> [status |-> "healthy", version |-> "1.0.0"]]

\* GET /api/prices
get_prices_response(args) ==
    IF price_data = None
    THEN Failure("'NoneType' object has no attribute 'copy'")
    ELSE IF DateFilterRaises(args)
    THEN Failure("Unknown datetime string format")
    ELSE LET df == DateToText(DateFilter(price_data, args))
         IN  Ok([count |-> Len(df.rows), data |-> df.rows])

\* price_data after get_prices: df is a copy, rebound to a new object by
\* each filter given; df['Date'] = ... writes the object df names
get_prices_df(args) ==
    LET df == copy(price_data)
    IN  IF Given(args, "start_date") \/ Given(args, "end_date")
        THEN NewObject(DateFilter(df.frame, args)) ELSE df

get_prices_store(args) ==
    IF price_data = None \/ DateFilterRaises(args) THEN price_data
    ELSE LET df == get_prices_df(args)
         IN  IF df.shared THEN DateToText(df.frame) ELSE price_data

\* GET /api/events
get_events_response(args) ==
    IF events_data = None
    THEN Failure("'NoneType' object has no attribute 'copy'")
    ELSE IF DateFilterRaises(args)
    THEN Failure("Unknown datetime string format")
    ELSE LET df1 == DateFilter(events_data, args)
             df2 == IF Given(args, "event_type")
                    THEN TypeEq(df1, args["event_type"]) ELSE df1
             df  == DateToText(df2)
         IN  Ok([count |-> Len(df.rows), data |-> df.rows])

\* events_data after get_events, as price_data after get_prices
get_events_df(args) ==
    LET df == copy(events_data)
        df1 == IF Given(args, "start_date") \/ Given(args, "end_date")
               THEN NewObject(DateFilter(df.frame, args)) ELSE df
    IN  IF Given(args, "event_type")
        THEN NewObject(TypeEq(df1.frame, args["event_type"])) ELSE df1

get_events_store(args) ==
    IF events_data = None \/ DateFilterRaises(args) THEN events_data
    ELSE LET df == get_events_df(args)
         IN  IF df.shared THEN DateToText(df.frame) ELSE events_data

\* GET /api/changepoint
get_changepoint_response == Ok([data |-> changepoint_results])

\* GET /api/statistics
get_statistics_response(args) ==
    IF price_data = None
    THEN Failure("'NoneType' object has no attribute 'copy'")
    ELSE IF DateFilterRaises(args)
    THEN Failure("Unknown datetime string format")
    ELSE LET df == DateFilter(price_data, args)
             has_returns == "log_return" \in df.columns
         IN  Ok([data |->
                 [count |-> Len(df.rows),
                  mean_price |-> Mean(Series(df, "Price")),
                  median_price |-> Median(Series(df, "Price")),
                  std_price |-> Std(Series(df, "Price")),
                  min_price |-> Min(Series(df, "Price")),
                  max_price |-> Max(Series(df, "Price")),
                  mean_return |-> IF has_returns
                                  THEN Mean(Series(df, "log_return")) ELSE None,
                  volatility |-> IF has_returns
                                 THEN Std(Series(df, "log_return")) ELSE None]])

\* GET /api/event-types
get_event_types_response ==
    IF events_data = None
    THEN Failure("'NoneType' object is not subscriptable")
    ELSE Ok([data |-> Unique(Series(events_data, "Event_Type"))])

\* GET /api/date-range
get_date_range_response ==
    IF price_data = None
    THEN Failure("'NoneType' object is not subscriptable")
    ELSE LET dates == {price_data.rows[i].Date : i \in 1..Len(price_data.rows)}
         IN  Ok([data |->
                 [min_date |-> strftime(CHOOSE m \in dates : \A d \in dates : m <= d),
                  max_date |-> strftime(CHOOSE m \in dates : \A d \in dates : m >= d)]])

Store == << data_dir, price_data, events_data, changepoint_results, view >>

\* The server takes a request when it is idle, runs the whole handler and
\* holds the response until it is sent.
Answer(op, args, resp) ==
    /\ request = NoRequest
    /\ request' = [op |-> op, args |-> args]
    /\ response' = resp
    /\ UNCHANGED Store

health_check == Answer("health_check", NoArgs, health_check_response)

get_prices ==
    \E args \in DateArgs :
        /\ request = NoRequest
        /\ request' = [op |-> "get_prices", args |-> args]
        /\ response' = get_prices_response(args)
        /\ price_data' = get_prices_store(args)
        /\ UNCHANGED << data_dir, events_data, changepoint_results, view >>

get_events ==
    \E args \in EventArgs :
        /\ request = NoRequest
        /\ request' = [op |-> "get_events", args |-> args]
        /\ response' = get_events_response(args)
        /\ events_data' = get_events_store(args)
        /\ UNCHANGED << data_dir, price_data, changepoint_results, view >>

get_changepoint == Answer("get_changepoint", NoArgs, get_changepoint_response)

get_statistics ==
    \E args \in DateArgs : Answer("get_statistics", args, get_statistics_response(args))

get_event_types == Answer("get_event_types", NoArgs, get_event_types_response)

get_date_range == Answer("get_date_range", NoArgs, get_date_range_response)

\* app.run(): the response is sent and the server waits for the next request
serve_next ==
    /\ request # NoRequest
    /\ request' = NoRequest
    /\ response' = NoRequest
    /\ UNCHANGED Store

Next ==
    \/ health_check
    \/ get_prices
    \/ get_events
    \/ get_changepoint
    \/ get_statistics
    \/ get_event_types
    \/ get_date_range
    \/ serve_next

Spec == Init /\ [][Next]_vars

(***************************************************************************)
(* The dashboard: one run of main() per interaction                         *)
(***************************************************************************)
Pages == {"Overview", "Price Analysis", "Event Analysis", "Statistical Details", "About"}

\* closest_events = events_analysis.head(5)
ClosestCount == 5

\* Timestamp.date(): the timestamps of the files are whole days
dt_date(t) == t

\* st.date_input(value=(min_date, max_date), min_value, max_value): a tuple
\* of two dates in order, of one date while the range is being picked, or
\* of none, all within the series
DateInputs(df) ==
    LET dates == {df.rows[i].Date : i \in 1..Len(df.rows)}
        min_date == dt_date(CHOOSE m \in dates : \A d \in dates : m <= d)
        max_date == dt_date(CHOOSE m \in dates : \A d \in dates : m >= d)
    IN  {<< >>} \cup {<< a >> : a \in min_date..max_date}
        \cup {<< r[1], r[2] >> :
                 r \in {q \in (min_date..max_date) \X (min_date..max_date) : q[1] <= q[2]}}

\* st.multiselect over events_df['Event_Type'].unique()
TypeInputs(events_df) ==
    SUBSET {events_df.rows[i].Event_Type : i \in 1..Len(events_df.rows)}

\* df_filtered
\* (mutant) a single picked date already taken as the start of the range
FilterFromFirstDate(df, date_range) ==
    IF Len(date_range) >= 1
    THEN [df EXCEPT !.rows =
             SelectSeq(df.rows, LAMBDA r : /\ dt_date(r.Date) >= date_range[1]
                                           /\ dt_date(r.Date) <= date_range[Len(date_range)])]
    ELSE df
FilterByDateInput(df, date_range) ==
    IF Len(date_range) = 2
    THEN [df EXCEPT !.rows =
             SelectSeq(df.rows, LAMBDA r : /\ dt_date(r.Date) >= date_range[1]
                                           /\ dt_date(r.Date) <= date_range[2])]
    ELSE df

\* events_filtered = events_df[events_df['Event_Type'].isin(event_types)]
FilterByTypes(events_df, event_types) ==
    [events_df EXCEPT !.rows = SelectSeq(@, LAMBDA r : r.Event_Type \in event_types)]

\* df[df['Date'] < change_date], df[df['Date'] >= change_date]
\* (mutants) the changepoint's own day put on the other side
BeforeInclusive(df, change_date) ==
    [df EXCEPT !.rows = SelectSeq(@, LAMBDA r : r.Date <= change_date)]
AfterExclusive(df, change_date) ==
    [df EXCEPT !.rows = SelectSeq(@, LAMBDA r : r.Date > change_date)]
Before(df, change_date) ==
    [df EXCEPT !.rows = SelectSeq(@, LAMBDA r : r.Date < change_date)]
After(df, change_date) ==
    [df EXCEPT !.rows = SelectSeq(@, LAMBDA r : r.Date >= change_date)]

\* one column of stats_df, before the numbers are formatted
StatsColumn(part) ==
    [count |-> Len(part.rows),
     mean_price |-> Mean(Series(part, "Price")),
     std_price |-> Std(Series(part, "Price")),
     min_price |-> Min(Series(part, "Price")),
     max_price |-> Max(Series(part, "Price")),
     mean_return |-> Mean(Series(part, "log_return")),
     volatility |-> Std(Series(part, "log_return"))]

\* create_price_chart: the closest price of an event is the argmin over
\* the filtered series, which raises on an empty one
PriceChartRaises(df, events_df) == Len(df.rows) = 0 /\ Len(events_df.rows) > 0

\* create_returns_chart reads df['log_return'] and splits the series it is
\* given at the changepoint
ReturnsChartRaises(df) == "log_return" \notin df.columns

create_returns_chart(df, results) ==
    LET change_date == to_datetime(results.change_point_date)
    IN  [before_data |-> Before(df, change_date).rows,
         after_data |-> After(df, change_date).rows]

\* the orders DataFrame.sort_values(column) can leave the rows in:
\* ascending by the column; the default sort is not stable, rows of equal
\* value come out in any order
Orders(n) ==
    {p \in [1..n -> 1..n] : \A i, j \in 1..n : p[i] = p[j] => i = j}

SortValues(rows, column) ==
    {[i \in 1..Len(rows) |-> rows[p[i]]] : p \in
        {q \in Orders(Len(rows)) :
            \A i, j \in 1..Len(rows) : i < j => rows[q[i]][column] <= rows[q[j]][column]}}

\* the two columns the event views add: whole days from the changepoint,
\* and their absolute value
\* (mutant) the difference taken the other way round
WithDistanceReversed(rows, change_date, days, abs_days) ==
    [i \in 1..Len(rows) |->
        rows[i] @@ (days :> (change_date - rows[i].Date))
                @@ (abs_days :> Abs(change_date - rows[i].Date))]
WithDistance(rows, change_date, days, abs_days) ==
    [i \in 1..Len(rows) |->
        rows[i] @@ (days :> (rows[i].Date - change_date))
                @@ (abs_days :> Abs(rows[i].Date - change_date))]

\* create_event_timeline: the rows it draws, those of its own copy with the
\* two columns, ordered by date
create_event_timeline(events_df, results) ==
    LET change_date == to_datetime(results.change_point_date)
        local == copy(events_df)
    IN  SortValues(WithDistance(local.frame.rows, change_date, "days_from_cp", "abs_days"),
                   "Date")

\* the rows of the caller's frame once create_event_timeline has returned:
\* the columns are assigned to the object the local name holds, and
\* sort_values binds the local name to a new object
\* (mutant) the frame of the caller ordered in place
create_event_timeline_inplace(events_df, results) ==
    create_event_timeline(events_df, results)
create_event_timeline_caller(events_df, results) ==
    LET change_date == to_datetime(results.change_point_date)
        local == copy(events_df)
    IN  IF local.shared
        THEN {WithDistance(local.frame.rows, change_date, "days_from_cp", "abs_days")}
        ELSE {events_df.rows}

\* the first n rows
head(rows, n) == SubSeq(rows, 1, IF Len(rows) < n THEN Len(rows) ELSE n)

\* Series.value_counts(): the number of rows of each value
value_counts(xs) ==
    [v \in {xs[i] : i \in 1..Len(xs)} |-> Cardinality({i \in 1..Len(xs) : xs[i] = v})]

Raised(base, error) == {base @@ [error |-> error]}

\* the pages of main(), each the set of views a run can end with
Overview(base, df_filtered, events_filtered, results) ==
    IF PriceChartRaises(df_filtered, events_filtered)
    THEN Raised(base, "attempt to get argmin of an empty sequence")
    ELSE {base @@ [timeline |-> t] : t \in create_event_timeline(events_filtered, results)}

PriceAnalysis(base, df_filtered, events_filtered, results) ==
    IF PriceChartRaises(df_filtered, events_filtered)
    THEN Raised(base, "attempt to get argmin of an empty sequence")
    ELSE IF ReturnsChartRaises(df_filtered)
    THEN Raised(base, "KeyError: 'log_return'")
    ELSE LET change_date == to_datetime(results.change_point_date)
             before == Before(df_filtered, change_date)
             after == After(df_filtered, change_date)
         IN  {base @@ [returns_chart |-> create_returns_chart(df_filtered, results),
                       before |-> before.rows,
                       after |-> after.rows,
                       stats_df |-> [Before |-> StatsColumn(before),
                                     After |-> StatsColumn(after)]]}

EventAnalysis(base, events_filtered, results) ==
    LET change_date == to_datetime(results.change_point_date)
        analysis == copy(events_filtered)
        with_distance ==
            WithDistance(analysis.frame.rows, change_date,
                         "days_from_changepoint", "abs_days")
        filtered == IF analysis.shared THEN with_distance ELSE events_filtered.rows
        shown(ea, t) ==
            [base EXCEPT !.events_filtered = filtered]
                 @@ [events_analysis |-> ea,
                     timeline |-> t,
                     type_counts |-> value_counts([i \in 1..Len(ea) |-> ea[i].Event_Type]),
                     closest_events |->
                         [i \in 1..Len(head(ea, ClosestCount)) |->
                             [Date |-> strftime(ea[i].Date), Type |-> ea[i].Event_Type,
                              Description |-> ea[i].Description,
                              DaysFromCP |-> ea[i].days_from_changepoint]]]
        sorted(ea) == [events_filtered EXCEPT !.rows = ea]
    IN  UNION {UNION {{shown(after, t) :
                          after \in create_event_timeline_caller(sorted(ea), results)} :
                      t \in create_event_timeline(sorted(ea), results)} :
               ea \in SortValues(with_distance, "abs_days")}

\* main() after load_data() returned: the sidebar, the filters, the page
Render(df, events_df, results, page, date_range, event_types) ==
    LET df_filtered == FilterByDateInput(df, date_range)
        events_filtered == FilterByTypes(events_df, event_types)
        base == [page |-> page, date_range |-> date_range, event_types |-> event_types,
                 df_filtered |-> df_filtered.rows,
                 events_filtered |-> events_filtered.rows]
    IN  CASE page = "Overview" -> Overview(base, df_filtered, events_filtered, results)
          [] page = "Price Analysis" ->
                PriceAnalysis(base, df_filtered, events_filtered, results)
          [] page = "Event Analysis" -> EventAnalysis(base, events_filtered, results)
          [] OTHER -> {base}

\* load_data(): the same three reads as the API's; what raises reaches main
load_data(dir) == Loaded(dir)

\* main(): a failed load shows the error and returns
main ==
    /\ view = NoView
    /\ IF LoadRaises(data_dir)
       THEN view' = [page |-> "error", error |-> "Error loading data"]
       ELSE LET loaded == load_data(data_dir)
            IN  \E page \in Pages, date_range \in DateInputs(loaded[1]),
                   event_types \in TypeInputs(loaded[2]) :
                   view' \in Render(loaded[1], loaded[2], loaded[3],
                                    page, date_range, event_types)
    /\ UNCHANGED << data_dir, price_data, events_data, changepoint_results,
                    request, response >>

\* an interaction with a widget: the script runs again from the top
rerun ==
    /\ view # NoView
    /\ view' = NoView
    /\ UNCHANGED << data_dir, price_data, events_data, changepoint_results,
                    request, response >>

\* The dashboard process: nothing of the API runs in it.
InitDashboard ==
    /\ data_dir \in DataDirs
    /\ price_data = None
    /\ events_data = None
    /\ changepoint_results = None
    /\ request = NoRequest
    /\ response = NoRequest
    /\ view = NoView

NextDashboard == main \/ rerun

SpecDashboard == InitDashboard /\ [][NextDashboard]_vars

\* The two processes side by side on the same files. The dashboard runs
\* while the API is idle or holds its answer to the list of event types,
\* the one answer that is compared with what the dashboard shows; the API
\* answers while the dashboard is idle.
NextSystem ==
    \/ view = NoView /\ Next
    \/ request.op \in {NoRequest.op, "get_event_types"} /\ NextDashboard

SpecSystem == Init /\ [][NextSystem]_vars

(***************************************************************************)
(* Claims about the API                                                     *)
(***************************************************************************)
\* the words of the claims, stated on the calendar itself
IsDate(text) == \E t \in DOMAIN IsoDates : IsoDates[t] = text
DayOf(text) == CHOOSE t \in DOMAIN IsoDates : IsoDates[t] = text
Sent(k) == k \in DOMAIN request.args /\ request.args[k] # ""
Loaded3 == price_data # None /\ events_data # None /\ changepoint_results # None

\* every date parameter sent is a date
DatesWellFormed ==
    \A k \in {"start_date", "end_date"} : Sent(k) => IsDate(request.args[k])

\* a day lies in the requested range; a side not sent is unbounded
InRequestedRange(t) ==
    /\ Sent("start_date") => DayOf(request.args["start_date"]) <= t
    /\ Sent("end_date") => t <= DayOf(request.args["end_date"])

Inverted ==
    /\ Sent("start_date") /\ Sent("end_date") /\ DatesWellFormed
    /\ DayOf(request.args["start_date"]) > DayOf(request.args["end_date"])

\* the rows of a loaded frame as a response lists them
Listed(rows) == [i \in 1..Len(rows) |-> [rows[i] EXCEPT !.Date = IsoDates[rows[i].Date]]]

\* C1: get_prices over a range a <= b (or with a side left out) returns
\* exactly the loaded observations with a <= date <= b, endpoints included,
\* in the order of the series.
C1_PricesInRange ==
    (request.op = "get_prices" /\ price_data # None /\ DatesWellFormed /\ ~Inverted)
    => /\ response.success /\ response.status = 200
       /\ response.data =
             Listed(SelectSeq(price_data.rows, LAMBDA r : InRequestedRange(r.Date)))
       /\ response.count = Len(response.data)

\* C1's case: a range with both ends sent that keeps some rows, in order,
\* and drops others
C1_Witness ==
    /\ request.op = "get_prices" /\ price_data # None
    /\ Sent("start_date") /\ Sent("end_date") /\ DatesWellFormed /\ ~Inverted
    /\ response.success
    /\ response.count >= 2
    /\ response.count < Len(price_data.rows)

\* C2: an inverted range (start_date > end_date) gets a successful, empty
\* answer from get_prices and from get_events, never an error.
C2_InvertedRangeEmpty ==
    (request.op \in {"get_prices", "get_events"} /\ Loaded3 /\ Inverted)
    => /\ response.success /\ response.status = 200
       /\ response.count = 0
       /\ response.data = << >>

\* C2's case: an inverted range both of whose ends are dates of loaded
\* events
C2_Witness ==
    /\ request.op = "get_events" /\ Loaded3 /\ Inverted
    /\ \E i, j \in 1..Len(events_data.rows) :
          /\ events_data.rows[i].Date = DayOf(request.args["start_date"])
          /\ events_data.rows[j].Date = DayOf(request.args["end_date"])
    /\ response.success

\* an event_type was sent that no loaded event carries
UnknownTypeSent ==
    /\ request.op = "get_events" /\ events_data # None
    /\ "event_type" \in DOMAIN request.args
    /\ \A i \in 1..Len(events_data.rows) :
          events_data.rows[i].Event_Type # request.args["event_type"]
    /\ DatesWellFormed

EmptySuccess ==
    /\ response.success /\ response.status = 200
    /\ response.count = 0
    /\ response.data = << >>

\* C4 as claimed: an event_type that no loaded event carries gets success,
\* count 0 and an empty list, whatever the dates.
C4_UnknownTypeEmpty_Original == UnknownTypeSent => EmptySuccess

\* C4 amended: a non-empty event_type that no loaded event carries gets
\* success, count 0 and an empty list, whatever the (well-formed) dates; an
\* empty event_type is no filter.
C4_UnknownTypeEmpty ==
    /\ (UnknownTypeSent /\ request.args["event_type"] # "") => EmptySuccess
    /\ (UnknownTypeSent /\ request.args["event_type"] = "")
       => /\ response.success
          /\ response.data =
                Listed(SelectSeq(events_data.rows, LAMBDA r : InRequestedRange(r.Date)))

\* C4's case: an unknown type asked of a catalog whose events lie in the
\* requested range
C4_Witness ==
    /\ UnknownTypeSent /\ request.args["event_type"] = "Unknown"
    /\ Len(events_data.rows) > 0
    /\ \A i \in 1..Len(events_data.rows) : InRequestedRange(events_data.rows[i].Date)
    /\ response.count = 0

\* the slice a statistics request selects
StatsSlice == SelectSeq(price_data.rows, LAMBDA r : InRequestedRange(r.Date))

StatsAnswered ==
    request.op = "get_statistics" /\ price_data # None /\ DatesWellFormed

FloatFields ==
    {"mean_price", "median_price", "std_price", "min_price", "max_price",
     "mean_return", "volatility"}

\* C7: statistics over a range selecting nothing are a success with
\* count = 0 and every other field null; no field of a Stats answer is NaN.
C7_EmptyStatsAreNull ==
    StatsAnswered
    => /\ response.success
       /\ \A f \in FloatFields : response.data[f] # NaN
       /\ Len(StatsSlice) = 0
          => /\ response.data.count = 0
             /\ \A f \in FloatFields : response.data[f] = None

IsZero(x) == x = Zero \/ x = Sqrt(Zero)

\* C8: statistics over exactly one observation report std_price = 0, and
\* volatility = 0 when its log_return is defined.
C8_SingletonStdIsZero ==
    (StatsAnswered /\ Len(StatsSlice) = 1)
    => /\ response.success
       /\ IsZero(response.data.std_price)
       /\ ("log_return" \in price_data.columns /\ StatsSlice[1].log_return # NaN)
          => IsZero(response.data.volatility)

SomeReturnDefined ==
    /\ "log_return" \in price_data.columns
    /\ \E i \in 1..Len(StatsSlice) : StatsSlice[i].log_return # NaN

\* C9: mean_return and volatility are non-null exactly when some observation
\* of the slice has a defined log_return.
C9_ReturnsPresentIffDefined ==
    StatsAnswered
    => /\ response.success
       /\ response.data.mean_return # None <=> SomeReturnDefined
       /\ response.data.volatility # None <=> SomeReturnDefined

DataOps ==
    {"get_prices", "get_events", "get_changepoint", "get_statistics",
     "get_event_types", "get_date_range"}

\* C10: after a failed load every data operation fails on every request,
\* and health_check keeps answering healthy.
C10_FailedLoadFailsAll ==
    (price_data = None /\ events_data = None /\ changepoint_results = None)
    => /\ request.op \in DataOps => ~response.success
       /\ request.op = "health_check" => response.body.status = "healthy"

(***************************************************************************)
(* Claims about the dashboard                                               *)
(***************************************************************************)
\* the loaded series and catalog, read off the files
SeriesOnDisk ==
    [i \in 1..Len(data_dir[1].rows) |->
        [data_dir[1].rows[i] EXCEPT !.Date = DayOf(data_dir[1].rows[i].Date)]]
CatalogOnDisk ==
    [i \in 1..Len(data_dir[2].rows) |->
        [data_dir[2].rows[i] EXCEPT !.Date = DayOf(data_dir[2].rows[i].Date)]]
ChangePointDay == DayOf(data_dir[3].change_point_date)

\* a run of main() that got past load_data()
Rendered == view.page \in Pages

\* a day lies in the active date range of the sidebar
InActiveRange(t) ==
    Len(view.date_range) = 2 => view.date_range[1] <= t /\ t <= view.date_range[2]

\* the API's event filter: the events in the requested range, of the
\* requested type when one is requested
C3_ApiEventFilter ==
    (request.op = "get_events" /\ events_data # None /\ DatesWellFormed)
    => /\ response.success
       /\ response.data =
             Listed(SelectSeq(events_data.rows,
                 LAMBDA r : /\ InRequestedRange(r.Date)
                            /\ Sent("event_type") => r.Event_Type = request.args["event_type"]))

\* C3: every path that filters events keeps exactly the catalog events with
\* from_date <= date <= to_date and a requested type: get_events of the API
\* and events_filtered of the dashboard.
C3_EventFilterEverywhere ==
    /\ C3_ApiEventFilter
    /\ Rendered
       => view.events_filtered =
             SelectSeq(CatalogOnDisk,
                 LAMBDA r : InActiveRange(r.Date) /\ r.Event_Type \in view.event_types)

PartitionShown == view.page = "Price Analysis" /\ "before" \in DOMAIN view

\* C5: in the regime comparison an observation of the date-filtered slice is
\* in "before" iff its date is strictly earlier than the changepoint and in
\* "after" otherwise; nothing outside the active date range is in either.
C5_RegimePartition ==
    PartitionShown
    => /\ view.before =
             SelectSeq(SeriesOnDisk,
                 LAMBDA r : InActiveRange(r.Date) /\ r.Date < ChangePointDay)
       /\ view.after =
             SelectSeq(SeriesOnDisk,
                 LAMBDA r : InActiveRange(r.Date) /\ ~(r.Date < ChangePointDay))
       /\ view.returns_chart.before_data = view.before
       /\ view.returns_chart.after_data = view.after

\* C5's case: an active range that leaves an observation out, with
\* observations before the changepoint and one dated on it
C5_Witness ==
    /\ PartitionShown
    /\ Len(view.date_range) = 2
    /\ \E i \in 1..Len(SeriesOnDisk) : ~InActiveRange(SeriesOnDisk[i].Date)
    /\ Len(view.before) > 0
    /\ \E i \in 1..Len(view.after) : view.after[i].Date = ChangePointDay

RowsOf(rows) == {rows[i] : i \in 1..Len(rows)}

FixtureShown ==
    /\ PartitionShown
    /\ data_dir = << CsvFile(FixturePrices), CsvFile(FixtureEvents), FixtureResults >>
    /\ Len(view.df_filtered) = 5

\* C6: "before" and "after" are disjoint and together are the filtered
\* slice; the fixture (5 rows, changepoint 2020-01-03) splits 2 and 3, with
\* mean prices 50.5 and 51.333...
C6_PartitionCovers ==
    PartitionShown
    => /\ RowsOf(view.before) \cap RowsOf(view.after) = {}
       /\ RowsOf(view.before) \cup RowsOf(view.after) = RowsOf(view.df_filtered)
       /\ Len(view.before) + Len(view.after) = Len(view.df_filtered)
       /\ view.stats_df.Before.count = Len(view.before)
       /\ view.stats_df.After.count = Len(view.after)
       /\ FixtureShown
          => /\ view.stats_df.Before.count = 2
             /\ view.stats_df.After.count = 3
             /\ view.stats_df.Before.mean_price = [num |-> 101, den |-> 2]
             /\ view.stats_df.After.mean_price = [num |-> 154, den |-> 3]

\* C6's case: the fixture, whole
C6_Witness == FixtureShown /\ Len(view.before) = 2 /\ Len(view.after) = 3

(***************************************************************************)
(* Claims about failures and loading                                        *)
(***************************************************************************)
\* a date parameter was sent that is no date
MalformedDateSent ==
    /\ request.op \in {"get_prices", "get_events", "get_statistics"}
    /\ \E k \in {"start_date", "end_date"} : Sent(k) /\ ~IsDate(request.args[k])

\* C11: a malformed start_date or end_date is rejected with a client-input
\* error whose kind (the status of the response) is not the one answered
\* when the store is not loaded.
C11_MalformedDateIsClientError ==
    (MalformedDateSent /\ Loaded3)
    => /\ ~response.success
       /\ response.status # Failure("").status

\* a file of the data directory cannot be read or parsed
FileBroken(i) ==
    \/ data_dir[i] = Missing
    \/ i \in {1, 2} /\ data_dir[i] # Missing
          /\ \E j \in 1..Len(data_dir[i].rows) : ~IsDate(data_dir[i].rows[j].Date)

NothingLoaded == price_data = None /\ events_data = None /\ changepoint_results = None

\* C12: loading is all-or-nothing: when any of the three artifacts fails to
\* read or parse none is retained; the three store variables are all loaded
\* or all absent.
C12_LoadAllOrNothing ==
    /\ Loaded3 \/ NothingLoaded
    /\ (\E i \in 1..3 : FileBroken(i)) => NothingLoaded
    /\ (\A i \in 1..3 : ~FileBroken(i)) => Loaded3

\* C12's case: the last file alone is broken, the first two are readable,
\* and a request was answered
C12_Witness ==
    /\ ~FileBroken(1) /\ ~FileBroken(2) /\ FileBroken(3)
    /\ NothingLoaded
    /\ request.op = "get_prices"

\* the dashboard's side of C12: a run over a broken directory shows the
\* error and nothing of the data
C12_DashboardNothingShown ==
    (view # NoView /\ \E i \in 1..3 : FileBroken(i)) => DOMAIN view = {"page", "error"}

\* C13: the query operations are pure projections: no request changes the
\* loaded price series, event catalog or changepoint record, the Date column
\* that the responses turn into text included.
\* (two values are compared by their printed form, so that a timestamp cell
\* and a text cell are different values rather than incomparable ones)
C13_QueriesArePure ==
    [][/\ ToString(price_data') = ToString(price_data)
       /\ ToString(events_data') = ToString(events_data)
       /\ ToString(changepoint_results') = ToString(changepoint_results)
      ]_(ToString(vars))

\* C13's case: the whole series was listed, its dates as text, and the
\* loaded series still holds them as timestamps
C13_Witness ==
    /\ request.op = "get_prices" /\ price_data # None
    /\ ~Sent("start_date") /\ ~Sent("end_date")
    /\ response.success /\ response.count = Len(price_data.rows)
    /\ \A i \in 1..response.count :
          /\ IsDate(response.data[i].Date)
          /\ price_data.rows[i].Date = DayOf(response.data[i].Date)

(***************************************************************************)
(* Claims about the event views of the dashboard                            *)
(***************************************************************************)
EventAnalysisShown ==
    Rendered /\ view.page = "Event Analysis" /\ "events_analysis" \in DOMAIN view

TimelineShown == Rendered /\ "timeline" \in DOMAIN view

\* the Event Analysis page of the fixture, every type selected
FixtureEventsShown ==
    /\ EventAnalysisShown
    /\ data_dir = << CsvFile(FixturePrices), CsvFile(FixtureEvents), FixtureResults >>
    /\ Len(view.events_filtered) = 3

\* C14: days_from_changepoint of an event is its date minus the changepoint
\* date in whole days, negative exactly for an event before the changepoint
\* and 0 on its date; abs_days is its absolute value, never negative. Both
\* the Event Analysis page and the timeline compute them so.
C14_DaysFromChangepoint ==
    /\ EventAnalysisShown
       => \A i \in 1..Len(view.events_analysis) :
             LET e == view.events_analysis[i]
             IN  /\ e.days_from_changepoint = e.Date - ChangePointDay
                 /\ (e.days_from_changepoint < 0) <=> (e.Date < ChangePointDay)
                 /\ (e.days_from_changepoint = 0) <=> (e.Date = ChangePointDay)
                 /\ e.abs_days >= 0
                 /\ e.abs_days \in {e.days_from_changepoint, 0 - e.days_from_changepoint}
    /\ TimelineShown
       => \A i \in 1..Len(view.timeline) :
             LET e == view.timeline[i]
             IN  /\ e.days_from_cp = e.Date - ChangePointDay
                 /\ e.abs_days >= 0
                 /\ e.abs_days \in {e.days_from_cp, 0 - e.days_from_cp}
    /\ FixtureEventsShown
       => {<< view.events_analysis[i].Description,
              view.events_analysis[i].days_from_changepoint >> : i \in 1..3}
          = {<< "first", 2 >>, << "second", -1 >>, << "third", 0 >>}

\* C14's case: events one day before, on, and two days after the changepoint
C14_Witness ==
    /\ FixtureEventsShown
    /\ \A d \in {-1, 0, 2} :
          \E i \in 1..3 : /\ view.events_analysis[i].days_from_changepoint = d
                          /\ view.events_analysis[i].abs_days = Abs(d)

\* the place of an event in the filtered catalog
Position(description) ==
    CHOOSE k \in 1..Len(view.events_filtered) :
        view.events_filtered[k].Description = description

NearerThan(a, b) ==
    \/ a.abs_days < b.abs_days
    \/ a.abs_days = b.abs_days /\ a.Date < b.Date
    \/ /\ a.abs_days = b.abs_days /\ a.Date = b.Date
       /\ Position(a.Description) < Position(b.Description)

\* what of C15 the code does: ascending in abs_days, and the fixture's
\* events at -1, 0, +2 in the order 0, -1, +2
C15_AscendingAbsDays ==
    /\ EventAnalysisShown
       => \A i, j \in 1..Len(view.events_analysis) :
             i < j => view.events_analysis[i].abs_days <= view.events_analysis[j].abs_days
    /\ FixtureEventsShown
       => [i \in 1..3 |-> view.events_analysis[i].days_from_changepoint] = << 0, -1, 2 >>

\* C15: the nearest-first ordering is ascending in abs_days, ties broken by
\* the earlier date and then by the order of the catalog, so that the same
\* events always come out in the same order.
C15_NearestFirstTieBreak ==
    EventAnalysisShown
    => \A i, j \in 1..Len(view.events_analysis) :
          i < j => NearerThan(view.events_analysis[i], view.events_analysis[j])

\* the long catalog on the Event Analysis page, every type selected
LongEventsShown ==
    /\ EventAnalysisShown
    /\ data_dir[2] = CsvFile(LongEvents)
    /\ Len(view.events_filtered) = 6

ShownDescriptions ==
    {view.closest_events[i].Description : i \in 1..Len(view.closest_events)}

\* C17: create_event_timeline orders its own copy by date, whatever the order
\* of its input, and leaves the caller's collection as it was; the table of
\* closest events built after the call holds the (at most 5) events of
\* smallest abs_days, nearest first.
C17_TimelineKeepsCaller ==
    /\ TimelineShown
       => /\ \A i, j \in 1..Len(view.timeline) :
                i < j => view.timeline[i].Date <= view.timeline[j].Date
          /\ {view.timeline[i].Description : i \in 1..Len(view.timeline)}
             = {view.events_filtered[i].Description : i \in 1..Len(view.events_filtered)}
          /\ Len(view.timeline) = Len(view.events_filtered)
    /\ EventAnalysisShown
       => /\ Len(view.events_analysis) = Len(view.events_filtered)
          /\ \A i \in 1..Len(view.events_analysis) :
                /\ DOMAIN view.events_analysis[i]
                   = {"Date", "Event_Type", "Description", "days_from_changepoint", "abs_days"}
                /\ \A j \in 1..Len(view.events_analysis) :
                      i < j => view.events_analysis[i].abs_days
                               <= view.events_analysis[j].abs_days
          /\ \A i \in 1..Len(view.events_filtered) :
                DOMAIN view.events_filtered[i] = {"Date", "Event_Type", "Description"}
          /\ Len(view.closest_events)
             = IF Len(view.events_filtered) < ClosestCount
               THEN Len(view.events_filtered) ELSE ClosestCount
          /\ Cardinality(ShownDescriptions) = Len(view.closest_events)
          /\ \A i \in 1..Len(view.closest_events) :
                LET c == view.closest_events[i]
                IN  /\ \E k \in 1..Len(view.events_filtered) :
                          LET e == view.events_filtered[k]
                          IN  /\ e.Description = c.Description
                              /\ e.Event_Type = c.Type
                              /\ e.Date = DayOf(c.Date)
                              /\ c.DaysFromCP = e.Date - ChangePointDay
                    /\ \A j \in 1..Len(view.closest_events) :
                          i < j => Abs(c.DaysFromCP) <= Abs(view.closest_events[j].DaysFromCP)
                    /\ \A k \in 1..Len(view.events_filtered) :
                          view.events_filtered[k].Description \notin ShownDescriptions
                          => Abs(c.DaysFromCP)
                             <= Abs(view.events_filtered[k].Date - ChangePointDay)

\* C17's case: six events out of date order, the timeline drawn in another
\* order than the table, the farthest event left out of the table
C17_Witness ==
    /\ LongEventsShown
    /\ Len(view.closest_events) = 5
    /\ "first" \notin ShownDescriptions
    /\ view.timeline[1].Description # view.events_analysis[1].Description
    /\ view.closest_events[1].DaysFromCP = 0

\* C18: the date filter of the dashboard is applied only when date_range
\* holds exactly two dates; with none or one, the whole series is behind
\* every chart and behind the before/after statistics.
C18_DateFilterNeedsTwoDates ==
    /\ (Rendered /\ Len(view.date_range) # 2)
       => /\ view.df_filtered = SeriesOnDisk
          /\ "before" \in DOMAIN view
             => /\ view.before = SelectSeq(SeriesOnDisk, LAMBDA r : r.Date < ChangePointDay)
                /\ view.after = SelectSeq(SeriesOnDisk, LAMBDA r : r.Date >= ChangePointDay)
                /\ view.returns_chart.before_data = view.before
                /\ view.returns_chart.after_data = view.after
                /\ view.stats_df.Before.count + view.stats_df.After.count = Len(SeriesOnDisk)
    /\ (Rendered /\ Len(view.date_range) = 2)
       => view.df_filtered = SelectSeq(SeriesOnDisk, LAMBDA r : InActiveRange(r.Date))

\* C18's case: a single date picked, later than the first day of the
\* series, and the statistics still count the days before it
C18_Witness ==
    /\ Rendered /\ view.page = "Price Analysis" /\ "before" \in DOMAIN view
    /\ Len(view.date_range) = 1
    /\ \E i \in 1..Len(view.before) : view.before[i].Date < view.date_range[1]
    /\ Len(view.after) > 0

(***************************************************************************)
(* Claims about the event types                                             *)
(***************************************************************************)
TypesOf(rows) == {rows[i].Event_Type : i \in 1..Len(rows)}

RECURSIVE Total(_, _)
Total(counts, types) ==
    IF types = {} THEN 0
    ELSE LET v == CHOOSE x \in types : TRUE
         IN  counts[v] + Total(counts, types \ {v})

\* C16: list_event_types returns exactly the distinct event_type values of
\* the catalog, each once, whatever they are; the by-type breakdown of the
\* dashboard has one group for each distinct type among the filtered
\* events, the groups' counts adding up to the number of filtered events.
C16_EventTypes ==
    /\ (request.op = "get_event_types" /\ events_data # None)
       => /\ response.success
          /\ {response.data[i] : i \in 1..Len(response.data)} = TypesOf(events_data.rows)
          /\ \A i, j \in 1..Len(response.data) :
                response.data[i] = response.data[j] => i = j
    /\ EventAnalysisShown
       => /\ DOMAIN view.type_counts = TypesOf(view.events_filtered)
          /\ \A v \in DOMAIN view.type_counts :
                view.type_counts[v]
                = Cardinality({i \in 1..Len(view.events_filtered) :
                                  view.events_filtered[i].Event_Type = v})
          /\ Total(view.type_counts, DOMAIN view.type_counts) = Len(view.events_filtered)

\* C16's case: a catalog of six events of three types, one of them outside
\* the usual three, listed by the API and broken down by the dashboard
C16_Witness ==
    /\ request.op = "get_event_types"
    /\ response.success
    /\ response.data = << "OPEC_Decision", "Geopolitical", "Sanctions" >>
    /\ Len(events_data.rows) = 6
    /\ LongEventsShown
    /\ view.type_counts
       = ("OPEC_Decision" :> 3) @@ ("Geopolitical" :> 2) @@ ("Sanctions" :> 1)

====
